---- MODULE Spec2Model ----
(***************************************************************************)
(* Model of the LINE webhook bot of src/index.js: the signature check, the *)
(* early 200 acknowledgment, the per-event loop with its dedup set, the    *)
(* patient record read / append / write, the AI call, the chart and the    *)
(* reply dispatch.  Node runs the handler on one event loop: the code      *)
(* between two `await`s is one atomic step, and concurrent requests        *)
(* interleave only at the awaits.  Each action below is one such step.     *)
(***************************************************************************)
EXTENDS Integers, Sequences, FiniteSets, TLC

VARIABLES
  processedEvents,  \* the Set of line 33
  files,            \* patients_data/<userId>.json, per user
  req,              \* per request: the raw body and signature header as received,
                    \* then, once the handler has checked them, req.body
  st,               \* per request: where the handler is suspended, and its locals
  tr                \* per request: the effects the handler has performed, in order

vars == <<processedEvents, files, req, st, tr>>

----------------------------------------------------------------------------
(* Bounds of the model *)

NumReq == 2      \* webhook requests over the process lifetime
MaxBatch == 2    \* events in one request body

Requests == 1..NumReq
Users == {"u1"}
MsgIds == {"m1", "m2"}
MsgTypes == {"text", "image"}

----------------------------------------------------------------------------
(* Inputs *)

\* event.message?.id of an event that has no message
NoId == "undefined"

\* event.message.text of the message with id m (line 118)
TextOf(m) == IF m = "m1" THEN <<"want to book an appointment">> ELSE <<"text of", m>>

\* The events the platform can deliver.  A message id names one message of
\* one user, and a replyToken is issued per event, so both are functions of
\* the event; a redelivery repeats the event as it was.
Events ==
  { [type |-> "message", mtype |-> k, id |-> m, userId |-> u,
     text |-> TextOf(m), replyToken |-> <<"token", k, m, u>>]
      : k \in MsgTypes, m \in MsgIds, u \in Users }
  \cup
  { [type |-> "follow", mtype |-> "none", id |-> NoId, userId |-> u,
     text |-> <<>>, replyToken |-> <<"token", "follow", NoId, u>>]
      : u \in Users }

Batches == UNION { [1..n -> Events] : n \in 0..MaxBatch }

\* A request body as bytes: the JSON value it denotes and the formatting of
\* the text (JSON.stringify output is "compact"; any other spelling of the
\* same value, e.g. with a space after a colon, is "spaced").
NoEvents == [has |-> FALSE, list |-> <<>>]
JsonValues == {NoEvents} \cup { [has |-> TRUE, list |-> b] : b \in Batches }
RawBodies == [value : JsonValues, fmt : {"compact", "spaced"}]

\* express.json(): req.body of a raw body (line 11)
JSONparse(raw) == raw.value

\* JSON.stringify(req.body) (line 86)
JSONstringify(value) == [value |-> value, fmt |-> "compact"]

LINE_CHANNEL_SECRET == "secret"

\* crypto.createHmac("sha256", key).update(bytes).digest("base64"): distinct
\* (key, bytes) give distinct digests
Hmac(key, bytes) == <<"hmac-sha256", key, bytes>>

\* the signature headers a sender may attach to raw body `raw`
Signatures(raw) ==
  { Hmac(LINE_CHANNEL_SECRET, raw),
    Hmac(LINE_CHANNEL_SECRET, JSONstringify(JSONparse(raw))),
    Hmac("guess", raw) }

\* lines 85-91: the digest the handler compares with the header
ComputedHash(raw) == Hmac(LINE_CHANNEL_SECRET, JSONstringify(JSONparse(raw)))

\* the comparison of line 91 is left out
verifyNothing(raw, signature) == TRUE

\* line 91
verify(raw, signature) == ComputedHash(raw) = signature

----------------------------------------------------------------------------
(* Patient records *)

\* line 111
EmptyRecord ==
  [history |-> <<>>, weight |-> <<>>, fat |-> <<>>, exercise |-> <<>>, calories |-> <<>>]

\* a record file written before this process started
SeededRecord == [EmptyRecord EXCEPT !.weight = <<60, 0>>]

\* JSON.stringify(patientData, null, 2) / JSON.parse(fs.readFileSync(...))
RecordToJson(data) == <<"json", data>>
RecordFromJson(text) == text[2]

NoFile == [exists |-> FALSE, text |-> <<>>]
FileOf(data) == [exists |-> TRUE, text |-> RecordToJson(data)]

\* lines 111-114, when the read does not throw
LoadRecord(fs, userId) ==
  IF fs[userId].exists THEN RecordFromJson(fs[userId].text) ELSE EmptyRecord

\* what a later load of the user's file returns
Persisted(userId) == LoadRecord(files, userId)

----------------------------------------------------------------------------
(* AI responses *)

Digits == <<"0", "1", "2", "3", "4", "5", "6", "7", "8", "9">>
IsDigit(c) == \E d \in 1..10 : Digits[d] = c
DigitVal(c) == (CHOOSE d \in 1..10 : Digits[d] = c) - 1

\* the completion texts of the model: "k65c2" and "ok"
AIContents == { <<"k", "6", "5", "c", "2">>, <<"o", "k">> }

\* outcomes of openai.chat.completions.create: the promise rejects, the
\* response has no choices[0].message, or it carries a content
AIOutcomes ==
  { [kind |-> "throw", content |-> <<>>], [kind |-> "malformed", content |-> <<>>] }
  \cup { [kind |-> "ok", content |-> c] : c \in AIContents }

\* content.match(/\d+/)?.[0] || "0": the first maximal run of digits
FirstDigitAt(s) ==
  IF \E p \in 1..Len(s) : IsDigit(s[p])
  THEN CHOOSE p \in 1..Len(s) : IsDigit(s[p]) /\ \A q \in 1..(p - 1) : ~IsDigit(s[q])
  ELSE 0

RECURSIVE DigitRun(_, _)
DigitRun(s, p) ==
  IF p > Len(s) \/ ~IsDigit(s[p]) THEN <<>> ELSE <<s[p]>> \o DigitRun(s, p + 1)

MatchDigits(s) == IF FirstDigitAt(s) = 0 THEN <<"0">> ELSE DigitRun(s, FirstDigitAt(s))

RECURSIVE parseInt(_)
parseInt(ds) ==
  IF ds = <<>> THEN 0
  ELSE 10 * parseInt(SubSeq(ds, 1, Len(ds) - 1)) + DigitVal(ds[Len(ds)])

\* the digits are looked for at the start of the text only
estimatedCaloriesAnchored(content) == parseInt(DigitRun(content, 1))

\* line 186
estimatedCalories(content) == parseInt(MatchDigits(content))

----------------------------------------------------------------------------
(* Chart *)

RECURSIVE SeqMax(_)
SeqMax(data) ==
  IF Len(data) = 1 THEN data[1]
  ELSE LET m == SeqMax(Tail(data)) IN IF data[1] > m THEN data[1] ELSE m

\* line 64: the divisor of stepX, data.length - 1 || 1
StepDivisor(data) == IF Len(data) - 1 = 0 THEN 1 ELSE Len(data) - 1

\* line 67: 250 - (v / Math.max(...data)) * 200, as the fraction num/den of
\* pixels; a division 0/0 gives NaN
PointY(v, data) ==
  LET m == SeqMax(data) IN
  IF m = 0 THEN (IF v = 0 THEN [nan |-> TRUE, num |-> 0, den |-> 1]
                 ELSE [nan |-> FALSE, num |-> 0, den |-> 0])
  ELSE [nan |-> FALSE, num |-> 250 * m - v * 200, den |-> m]

\* lines 45-79: the polyline the chart draws; x is in units of 1/StepDivisor
createLineGraph(data, label) ==
  [label |-> label,
   points |-> [p \in 1..Len(data) |->
                 [x |-> 50 * StepDivisor(data) + 340 * (p - 1),
                  xden |-> StepDivisor(data),
                  y |-> PointY(data[p], data)]]]

----------------------------------------------------------------------------
(* The handler *)

Idle == [pc |-> "idle", i |-> 0, patientData |-> EmptyRecord]

\* everything a step of the handler can change
Cur == [pe |-> processedEvents, files |-> files, st |-> st, tr |-> tr]

Entry(op, i, arg) == [op |-> op, i |-> i, arg |-> arg]
Log(S, r, e) == [S EXCEPT !.tr[r] = Append(@, e)]

Suspend(S, r, pc, i, data) ==
  [S EXCEPT !.st[r] = [pc |-> pc, i |-> i, patientData |-> data]]

\* lines 93, 97 and 100: res.status(...).send(...) / res.sendStatus(200)
Respond(S, r, status) == Log(S, r, Entry("respond", 0, status))

\* the for-of loop has run out of events: the handler returns
Finish(S, r) == [S EXCEPT !.st[r] = [Idle EXCEPT !.pc = "done"]]

\* the catch block takes the failed event's id out of the set again
CatchForgets(S, r, i, cause) ==
  LET added == { S.tr[r][k].arg : k \in { j \in DOMAIN S.tr[r] :
                                           S.tr[r][j].op = "add" /\ S.tr[r][j].i = i } }
  IN [Log(S, r, Entry("catch", i, cause))
        EXCEPT !.st[r] = [Idle EXCEPT !.pc = "done"], !.pe = @ \ added]

\* the catch block answers the request again
CatchResponds(S, r, i, cause) ==
  [Log(Log(S, r, Entry("respond", 0, 500)), r, Entry("catch", i, cause))
     EXCEPT !.st[r] = [Idle EXCEPT !.pc = "done"]]

\* lines 202-204: an error thrown anywhere in the try block is logged and
\* ends the handler; `cause` is the call that threw
Catch(S, r, i, cause) == Finish(Log(S, r, Entry("catch", i, cause)), r)

\* the dedup check never finds the id
shouldSkipNever(pe, id) == FALSE

\* line 104
shouldSkip(pe, id) == id \in pe

\* the id is not recorded
DedupAddNothing(pe, id) == pe

\* line 105
DedupAdd(pe, id) == pe \cup {id}

\* the history is replaced by the new entry
PushHistoryAlone(data, event) ==
  [data EXCEPT !.history = << [message |-> event.text] >>]

\* the entry is put in front of the history
PushHistoryFront(data, event) ==
  [data EXCEPT !.history = << [message |-> event.text] >> \o @]

\* line 119; the entry's timestamp (Date.now()) is left out: nothing reads it
PushHistory(data, event) ==
  [data EXCEPT !.history = Append(@, [message |-> event.text])]

\* the write is reported but the file keeps its old content
WriteFileNothing(S, r, i, userId, data) ==
  { Log(S, r, Entry("write", i, userId)) }

\* lines 120 and 188: fs.writeFileSync either replaces the whole file or throws
WriteFile(S, r, i, userId, data) ==
  { Log([S EXCEPT !.files[userId] = FileOf(data)], r, Entry("write", i, userId)) }

WriteThrows(S, r, i, userId) ==
  { Catch(S, r, i, "write") }

\* lines 117-139: the text path up to the await of the AI call
TextStart(S, r, i, event, data) ==
  LET pushed == PushHistory(data, event) IN
  WriteThrows(S, r, i, event.userId)
  \cup
  { Suspend(Log(W, r, Entry("ai", i, "text")), r, "awaitAI", i, pushed)
      : W \in WriteFile(S, r, i, event.userId, pushed) }

\* lines 164-169: the image path up to the await of the content download
ImageStart(S, r, i, event, data) ==
  { Suspend(Log(S, r, Entry("get", i, event.id)), r, "awaitGet", i, data) }

\* lines 102-201: the loop from event i on, up to the next await, the end of
\* the batch or a throw; the set of the states it can leave
RECURSIVE Loop(_, _, _, _)
Loop(S, r, events, i) ==
  IF i > Len(events) THEN { Finish(S, r) }
  ELSE
    LET event == events[i] IN
    IF shouldSkip(S.pe, event.id)
    THEN Loop(Log(S, r, Entry("skip", i, event.id)), r, events, i + 1)
    ELSE
      LET S1 == Log([S EXCEPT !.pe = DedupAdd(@, event.id)], r, Entry("add", i, event.id))
          data == LoadRecord(S1.files, event.userId)
          S2 == Log(S1, r, Entry("read", i, event.userId))
      IN
      \* line 113: readFileSync or JSON.parse throws on an existing file
      (IF S1.files[event.userId].exists
       THEN { Catch(S1, r, i, "read") }
       ELSE {})
      \cup
      (IF event.type = "message" /\ event.mtype = "text"
       THEN TextStart(S2, r, i, event, data)
       ELSE IF event.type = "message" /\ event.mtype = "image"
       THEN ImageStart(S2, r, i, event, data)
       ELSE Loop(S2, r, events, i + 1))

EventsOf(r) == req[r].body.list
CurrentEvent(r) == EventsOf(r)[st[r].i]

Install(S) ==
  /\ processedEvents' = S.pe
  /\ files' = S.files
  /\ st' = S.st
  /\ tr' = S.tr

NoRequest ==
  [raw |-> [value |-> NoEvents, fmt |-> "compact"], signature |-> <<>>, body |-> NoEvents]

\* the chart is pushed after the text instead of unshifted before it
messagesToSendPushed(aiReply, data) ==
  LET text == [type |-> "text", text |-> aiReply, image |-> <<>>] IN
  IF Len(data.weight) > 0
  THEN << text, [type |-> "image", text |-> <<>>,
                 image |-> <<createLineGraph(data.weight, "weight")>>] >>
  ELSE << text >>

\* lines 143-153
messagesToSend(aiReply, data) ==
  LET text == [type |-> "text", text |-> aiReply, image |-> <<>>] IN
  IF Len(data.weight) > 0
  THEN << [type |-> "image", text |-> <<>>,
           image |-> <<createLineGraph(data.weight, "weight")>>], text >>
  ELSE << text >>

\* lines 194-196
CalorieMessages(estimate) ==
  << [type |-> "text", text |-> <<"calories", estimate>>, image |-> <<>>] >>

\* lines 156-160 and 190-199: axios.post to the reply endpoint is started
Dispatch(S, r, i, event, messages, data) ==
  Suspend(Log(S, r, Entry("reply", i, [replyToken |-> event.replyToken,
                                        messages |-> messages])),
          r, "awaitPost", i, data)

\* the calories are not persisted before the reply
ImageAfterAINoWrite(S, r, i, event, data, content) ==
  { Suspend(Log(S, r, Entry("reply", i, [replyToken |-> event.replyToken,
                                          messages |-> <<>>])),
            r, "awaitPost", i, data) }

\* lines 186-199: the image path after the AI call has answered
ImageAfterAI(S, r, i, event, data, content) ==
  LET estimate == estimatedCalories(content)
      pushed == [data EXCEPT !.calories = Append(@, estimate)]
  IN
  WriteThrows(S, r, i, event.userId)
  \cup
  { Dispatch(W, r, i, event, CalorieMessages(estimate), pushed)
      : W \in WriteFile(S, r, i, event.userId, pushed) }

\* lines 141-160: the text path after the AI call has answered
TextAfterAI(S, r, i, event, data, content) ==
  { Dispatch(S, r, i, event, messagesToSend(content, data), data) }

----------------------------------------------------------------------------
(* Actions: one per run of the handler between two awaits *)

\* a POST /webhook arrives: any body, with any of the signatures above
Arrive(r) ==
  /\ st[r].pc = "idle"
  /\ \E raw \in RawBodies : \E signature \in Signatures(raw) :
       req' = [req EXCEPT ![r] = [raw |-> raw, signature |-> signature, body |-> NoEvents]]
  /\ st' = [st EXCEPT ![r] = [@ EXCEPT !.pc = "received"]]
  /\ UNCHANGED <<processedEvents, files, tr>>

\* lines 82-105: the handler runs up to its first await; from here on it
\* reads nothing of the request but req.body
Webhook(r) ==
  /\ st[r].pc = "received"
  /\ LET raw == req[r].raw
         signature == req[r].signature
         body == JSONparse(raw)
     IN
     IF ~verify(raw, signature)
     THEN /\ Install(Finish(Respond(Cur, r, 403), r))
          /\ req' = [req EXCEPT ![r] = NoRequest]
     ELSE /\ req' = [req EXCEPT ![r] = [NoRequest EXCEPT !.body = body]]
          /\ IF ~body.has
             THEN Install(Finish(Respond(Cur, r, 200), r))
             ELSE \E S \in Loop(Respond(Cur, r, 200), r, body.list, 1) : Install(S)

\* lines 166-172: the content download settles
ResumeGet(r) ==
  /\ st[r].pc = "awaitGet"
  /\ \E ok \in BOOLEAN :
       IF ok
       THEN Install(Suspend(Log(Cur, r, Entry("ai", st[r].i, "image")), r, "awaitAI",
                            st[r].i, st[r].patientData))
       ELSE Install(Catch(Cur, r, st[r].i, "get"))
  /\ UNCHANGED req

\* lines 123-160 and 172-199: the AI call settles
ResumeAI(r) ==
  /\ st[r].pc = "awaitAI"
  /\ \E out \in AIOutcomes :
       LET i == st[r].i
           event == CurrentEvent(r)
           data == st[r].patientData
       IN
       IF out.kind # "ok"
       THEN Install(Catch(Cur, r, i, "ai"))
       ELSE LET S0 == Log(Cur, r, Entry("completion", i, out.content)) IN
            \E S \in (IF event.mtype = "text"
                      THEN TextAfterAI(S0, r, i, event, data, out.content)
                      ELSE ImageAfterAI(S0, r, i, event, data, out.content)) :
              Install(S)
  /\ UNCHANGED req

\* lines 156-161 and 190-201: the reply POST settles, and the loop goes on
ResumePost(r) ==
  /\ st[r].pc = "awaitPost"
  /\ \E ok \in BOOLEAN :
       IF ok
       THEN \E S \in Loop(Cur, r, EventsOf(r), st[r].i + 1) : Install(S)
       ELSE Install(Catch(Cur, r, st[r].i, "post"))
  /\ UNCHANGED req


Init ==
  /\ processedEvents = {}
  /\ files \in [Users -> {NoFile, FileOf(SeededRecord)}]
  /\ req = [r \in Requests |-> NoRequest]
  /\ st = [r \in Requests |-> Idle]
  /\ tr = [r \in Requests |-> <<>>]

Next ==
  \E r \in Requests :
    \/ Arrive(r)
    \/ Webhook(r)
    \/ ResumeGet(r)
    \/ ResumeAI(r)
    \/ ResumePost(r)

Spec == Init /\ [][Next]_vars

----------------------------------------------------------------------------
(* The chart renderer on its own: createLineGraph applied to any series *)

MaxLen == 3      \* points in a series
MaxVal == 2      \* largest sample

Series == UNION { [1..n -> 0..MaxVal] : n \in 0..MaxLen }

InitGraph ==
  /\ processedEvents = {}
  /\ files \in [Users -> { FileOf([EmptyRecord EXCEPT !.weight = w]) : w \in Series }]
  /\ req = [r \in Requests |-> NoRequest]
  /\ st = [r \in Requests |-> Idle]
  /\ tr = [r \in Requests |-> <<>>]

\* line 146: the handler of r renders the weight series of a user
RenderChart(r) ==
  /\ st[r].pc = "idle"
  /\ \E u \in Users :
       Install(Finish(Log(Cur, r, Entry("chart", 0,
                 [data |-> Persisted(u).weight,
                  graph |-> createLineGraph(Persisted(u).weight, "weight")])), r))
  /\ UNCHANGED req

NextGraph == \E r \in Requests : RenderChart(r)

SpecGraph == InitGraph /\ [][NextGraph]_vars

----------------------------------------------------------------------------
(* Reading the traces *)

AllEntries == UNION { { <<r, k>> : k \in DOMAIN tr[r] } : r \in Requests }
At(p) == tr[p[1]][p[2]]

\* positions in the trace of request r of the entries `op` of event i
Pos(r, op, i) == { k \in DOMAIN tr[r] : tr[r][k].op = op /\ tr[r][k].i = i }
Did(r, op, i) == Pos(r, op, i) # {}

Done(r) == st[r].pc = "done"
Accepted(r) == tr[r] # <<>> /\ tr[r][1].arg = 200
Rejected(r) == tr[r] # <<>> /\ tr[r][1].arg = 403

\* the deliveries of the accepted requests: request and position in its batch
Deliveries == { <<r, i>> \in Requests \X (1..MaxBatch) : Accepted(r) /\ i <= Len(EventsOf(r)) }
DeliveriesOf(id) == { d \in Deliveries : EventsOf(d[1])[d[2]].id = id }

RepliesTo(token) ==
  { p \in AllEntries : At(p).op = "reply" /\ At(p).arg.replyToken = token }
RepliesFor(id) ==
  { p \in AllEntries : At(p).op = "reply" /\ EventsOf(p[1])[At(p).i].id = id }
WritesFor(id) ==
  { p \in AllEntries : At(p).op = "write" /\ EventsOf(p[1])[At(p).i].id = id }
AddsOf(id) == { p \in AllEntries : At(p).op = "add" /\ At(p).arg = id }
SkipsOf(id) == { p \in AllEntries : At(p).op = "skip" /\ At(p).arg = id }

Effects == {"read", "write", "get", "ai", "reply"}

----------------------------------------------------------------------------
(* Claims *)

\* C1: every event of an authenticated request that passes the dedup check
\* gets exactly one reply dispatch, whatever its type and whatever fails; as
\* a final result: once the handler has returned, each accepted event has
\* exactly one reply entry.
C1_EveryAcceptedEventRepliedOnce ==
  \A r \in Requests :
    Done(r) /\ Accepted(r) =>
      \A i \in 1..Len(EventsOf(r)) :
        Did(r, "add", i) => Cardinality(Pos(r, "reply", i)) = 1

\* C2: an id is accepted by the dedup check at most once over all requests
\* and all interleavings; it is in the processed-event set exactly when it
\* has been accepted; a delivery is skipped only after the accepting one; and
\* only an accepted delivery is processed.
C2_DedupAcceptsOnce ==
  /\ \A id \in MsgIds \cup {NoId} :
       /\ Cardinality(AddsOf(id)) <= 1
       /\ (id \in processedEvents) <=> (AddsOf(id) # {})
       /\ SkipsOf(id) # {} => AddsOf(id) # {}
       /\ DeliveriesOf(id) # {} /\ (\A r \in Requests : Done(r)) /\
            (\A d \in DeliveriesOf(id) : Did(d[1], "add", d[2]) \/ Did(d[1], "skip", d[2]))
            => Cardinality(AddsOf(id)) = 1
  /\ \A p \in AllEntries :
       At(p).op \in Effects =>
         \E k \in Pos(p[1], "add", At(p).i) : k < p[2]

\* C2 witness: an id accepted in one request, whose handler is still
\* suspended, and skipped in the other, next to an accepted second id
C2_Witness ==
  \E r1, r2 \in Requests :
    /\ r1 # r2
    /\ st[r1].pc = "awaitAI"
    /\ \E id \in MsgIds :
         /\ \E k \in DOMAIN tr[r1] : tr[r1][k].op = "add" /\ tr[r1][k].arg = id
         /\ \E k \in DOMAIN tr[r2] : tr[r2][k].op = "skip" /\ tr[r2][k].arg = id
         /\ \E id2 \in MsgIds \ {id} : AddsOf(id2) # {}

\* C3: when one event id is delivered twice, the two deliveries together
\* cause exactly one reply dispatch and exactly one record write.
C3_TwoDeliveriesOneReplyOneWrite ==
  \A id \in MsgIds :
    (\A r \in Requests : Done(r)) /\ Cardinality(DeliveriesOf(id)) = 2 =>
      /\ Cardinality(RepliesFor(id)) = 1
      /\ Cardinality(WritesFor(id)) = 1

\* C4: a failure in one event of a batch does not keep the later events of
\* the batch from being dedup-checked: once the handler has returned, every
\* event of the batch has been through the dedup check.
C4_SiblingsStillProcessed ==
  \A r \in Requests :
    Done(r) /\ Accepted(r) =>
      \A i \in 1..Len(EventsOf(r)) : Did(r, "add", i) \/ Did(r, "skip", i)

\* the fixed apology of the specification
FallbackText == <<"currently busy, please retry shortly">>

\* C5: when the AI call of an event fails, a reply with the fixed fallback
\* text is dispatched for that event.
C5_AIFailureGetsFallbackReply ==
  \A p \in AllEntries :
    At(p).op = "catch" /\ At(p).arg = "ai" =>
      \E k \in Pos(p[1], "reply", At(p).i) :
        \E m \in DOMAIN tr[p[1]][k].arg.messages :
          tr[p[1]][k].arg.messages[m].text = FallbackText

\* the handler of request r runs its first step, lines 82-105
HandlerStarts(r) == st[r].pc = "received" /\ st'[r].pc # "received"

\* C6: a request whose computed digest differs from its signature header is
\* answered 403 and does nothing else: no dedup check, no change of the
\* processed-event set or of a patient file, no AI call, no reply, then or later.
C6_RejectedRequestDoesNothing ==
  /\ [](\A r \in Requests : Rejected(r) => Len(tr[r]) = 1 /\ Done(r))
  /\ [][\A r \in Requests :
         HandlerStarts(r) /\ ComputedHash(req[r].raw) # req[r].signature =>
           /\ tr'[r] = << Entry("respond", 0, 403) >>
           /\ st'[r].pc = "done"
           /\ processedEvents' = processedEvents
           /\ files' = files]_vars

\* C6 witness: a request has been rejected while the other one, accepted,
\* has had its events processed
C6_Witness ==
  \E r1, r2 \in Requests :
    /\ Rejected(r1) /\ Done(r1)
    /\ Accepted(r2) /\ Did(r2, "reply", 1)
    /\ processedEvents # {}

\* C7: a request is accepted exactly when its signature header is the HMAC,
\* under the channel secret, of the raw body bytes that were received.
C7_AcceptedIffSignedOverRawBytes ==
  [][\A r \in Requests :
       HandlerStarts(r) =>
         ((tr'[r][1].arg = 200) <=>
            (req[r].signature = Hmac(LINE_CHANNEL_SECRET, req[r].raw)))]_vars

\* C8: an authenticated request is answered 200 before anything else the
\* handler does, and no request is ever answered twice, also when the
\* processing of its events fails afterwards.
C8_OneEarlyResponse ==
  /\ [](\A r \in Requests :
         /\ tr[r] # <<>> => tr[r][1].op = "respond"
         /\ Cardinality({ k \in DOMAIN tr[r] : tr[r][k].op = "respond" }) <= 1)
  /\ [][\A r \in Requests :
         HandlerStarts(r) /\ verify(req[r].raw, req[r].signature) =>
           tr'[r][1] = Entry("respond", 0, 200)]_vars

\* C8 witness: an accepted request whose processing failed in the AI call
\* after the dedup check, with its single 200 response
C8_Witness ==
  \E r \in Requests :
    /\ Accepted(r) /\ Done(r)
    /\ Did(r, "add", 1)
    /\ \E k \in Pos(r, "catch", 1) : tr[r][k].arg = "ai"

ReplyTokens == { e.replyToken : e \in Events }

\* C9: the reply endpoint is called at most once per replyToken, over all
\* requests, redeliveries and interleavings, also after a failed dispatch.
C9_AtMostOneReplyPerToken ==
  \A token \in ReplyTokens : Cardinality(RepliesTo(token)) <= 1

\* C9 witness: an event delivered in both requests, replied to once, the
\* dispatch having failed, and both handlers returned
C9_Witness ==
  \E id \in MsgIds :
    /\ \A r \in Requests : Done(r) /\ \E d \in DeliveriesOf(id) : d[1] = r
    /\ \E p \in RepliesFor(id) :
         \E k \in Pos(p[1], "catch", At(p).i) : tr[p[1]][k].arg = "post"
    /\ \E d1, d2 \in DeliveriesOf(id) :
         d1 # d2 /\ EventsOf(d1[1])[d1[2]] = EventsOf(d2[1])[d2[2]]

Before(r, i, op1, op2) ==
  \A k2 \in Pos(r, op2, i) : \E k1 \in Pos(r, op1, i) : k1 < k2

Writes == { p \in AllEntries : At(p).op = "write" }

\* the appends the persisted record of a user holds
AppendsPersisted(u) == Len(Persisted(u).history) + Len(Persisted(u).calories)

\* C11: two concurrently processed deliveries with different ids for one
\* user can lose an update: the persisted record can hold fewer appends than
\* the writes that succeeded.  It never holds more, and it holds fewer only
\* when two requests wrote and one of the writes was the full-record write
\* of an image event, made from the record that event had loaded earlier.
C11_LostUpdateOnlyByStaleImageWrite ==
  \A u \in Users :
    LET writes == { p \in Writes : At(p).arg = u } IN
    /\ AppendsPersisted(u) <= Cardinality(writes)
    /\ AppendsPersisted(u) < Cardinality(writes) =>
         /\ \E p, q \in writes : p[1] # q[1]
         /\ \E p \in writes : EventsOf(p[1])[At(p).i].mtype = "image"

\* C11 witness: a text event and an image event with different ids, in two
\* requests, have both written and replied, and the persisted record holds
\* only one of the two appends
C11_Witness ==
  \E u \in Users : \E p, q \in Writes :
    /\ p[1] # q[1]
    /\ At(p).arg = u /\ At(q).arg = u
    /\ EventsOf(p[1])[At(p).i].id # EventsOf(q[1])[At(q).i].id
    /\ EventsOf(p[1])[At(p).i].mtype = "text"
    /\ EventsOf(q[1])[At(q).i].mtype = "image"
    /\ \A r \in Requests : Done(r)
    /\ Cardinality({ w \in Writes : At(w).arg = u }) = 2
    /\ Persisted(u).history = <<>>
    /\ Len(Persisted(u).calories) = 1

\* the trigger phrase and the routing reply of the specification's scenario
MatchesTrigger(text) == text = <<"want to book an appointment">>
RoutingReply == <<"please call the clinic">>

\* C12: for a text event whose message matches a trigger phrase no AI call
\* is made, and the reply dispatched is the fixed routing reply.
C12_TriggerPhraseSkipsAI ==
  \A d \in Deliveries :
    LET event == EventsOf(d[1])[d[2]] IN
    event.mtype = "text" /\ MatchesTrigger(event.text) =>
      /\ ~Did(d[1], "ai", d[2])
      /\ \A k \in Pos(d[1], "reply", d[2]) :
           /\ Len(tr[d[1]][k].arg.messages) = 1
           /\ tr[d[1]][k].arg.messages[1].text = RoutingReply

\* C13: when the record read or write of an event throws, a reply is still
\* dispatched for that event.
C13_StorageErrorStillReplies ==
  \A p \in AllEntries :
    At(p).op = "catch" /\ At(p).arg \in {"read", "write"} =>
      Did(p[1], "reply", At(p).i)

\* C14: events without a message id all get the same dedup decision: they
\* are never accepted at one delivery and skipped at another.
C14_IdlessEventsUniformPolicy ==
  ~(AddsOf(NoId) # {} /\ SkipsOf(NoId) # {})

RECURSIVE Pow10(_)
Pow10(n) == IF n = 0 THEN 1 ELSE 10 * Pow10(n - 1)

RECURSIVE DecimalValue(_, _, _)
DecimalValue(s, a, b) ==
  IF a > b THEN 0 ELSE DigitVal(s[a]) * Pow10(b - a) + DecimalValue(s, a + 1, b)

\* the first maximal run of decimal digits of s read as an integer, 0 when
\* s holds no digit
FirstInteger(s) ==
  LET ds == { p \in 1..Len(s) : IsDigit(s[p]) } IN
  IF ds = {} THEN 0
  ELSE LET a == CHOOSE p \in ds : \A q \in ds : p <= q
           run == { q \in a..Len(s) : \A k \in a..q : IsDigit(s[k]) }
           b == CHOOSE q \in run : \A k \in run : k <= q
       IN DecimalValue(s, a, b)

\* the AI call of an image event has answered and the handler has gone on
\* to the reply
ImageEstimated(r) ==
  /\ st[r].pc = "awaitAI"
  /\ CurrentEvent(r).mtype = "image"
  /\ st'[r].pc = "awaitPost"

\* C15: for an image event the value appended to calories is the first
\* maximal run of digits of the AI response read as an integer, 0 when there
\* is no digit; the file written is the loaded record with that one value
\* appended at the end of calories; the reply quotes the same value; and a
\* response without a digit raises no error.
C15_CaloriesFirstInteger ==
  /\ [][\A r \in Requests :
         ImageEstimated(r) =>
           LET i == st[r].i
               u == CurrentEvent(r).userId
               n == Len(tr'[r])
               content == tr'[r][n - 2].arg
               v == FirstInteger(content)
           IN
           /\ tr'[r][n - 2].op = "completion"
           /\ files'[u] = FileOf([st[r].patientData EXCEPT
                                    !.calories = Append(@, v)])
           /\ tr'[r][n].op = "reply"
           /\ tr'[r][n].arg.messages = CalorieMessages(v)]_vars
  /\ [](\A p \in AllEntries :
         At(p).op = "catch" /\ Did(p[1], "completion", At(p).i) =>
           At(p).arg \in {"write", "post"})

\* C15 witness: two image events answered "k65c2" and "ok" have appended 65
\* and 0, in that order
C15_Witness ==
  \E u \in Users : Persisted(u).calories = <<65, 0>>

\* the handler of r runs from the start of the loop or from a settled reply
\* POST up to the await of pc: the event it stops at was loaded in this step
LoadedUpTo(r, pc) ==
  /\ st[r].pc \in {"received", "awaitPost"}
  /\ st'[r].pc = pc

\* the event the handler of r is suspended at after the step
EventAfter(r) == req'[r].body.list[st'[r].i]

\* C16: loading the record of a user without a file gives five empty
\* sequences and never throws; and the file a text event writes is the
\* record loaded in the same step with one entry for the message appended at
\* the end of history, everything else unchanged.
C16_LoadDefaultAndTextAppend ==
  [][\A r \in Requests :
       /\ LoadedUpTo(r, "awaitAI") =>
            LET u == EventAfter(r).userId IN
            /\ files'[u].exists
            /\ LET before == Persisted(u)
                   after == RecordFromJson(files'[u].text)
               IN
               /\ ~files[u].exists =>
                    /\ before.history = <<>> /\ before.weight = <<>>
                    /\ before.fat = <<>> /\ before.exercise = <<>>
                    /\ before.calories = <<>>
               /\ after.history = before.history \o << [message |-> EventAfter(r).text] >>
               /\ after.weight = before.weight
               /\ after.fat = before.fat
               /\ after.exercise = before.exercise
               /\ after.calories = before.calories
       /\ LoadedUpTo(r, "awaitGet") /\ ~files[EventAfter(r).userId].exists =>
            st'[r].patientData =
              [history |-> <<>>, weight |-> <<>>, fat |-> <<>>,
               exercise |-> <<>>, calories |-> <<>>]
       /\ LoadedUpTo(r, "done") /\ (\A u \in Users : ~files[u].exists) =>
            LET last == tr'[r][Len(tr'[r])] IN
            ~(last.op = "catch" /\ last.arg = "read")
    ]_vars

\* C16 witness: a user who had no file has sent two text messages, and the
\* file holds the two entries in the order they were written
C16_Witness ==
  \E u \in Users :
    /\ Persisted(u).weight = <<>>
    /\ Len(Persisted(u).history) = 2
    /\ Persisted(u).history[1] # Persisted(u).history[2]

Replies == { p \in AllEntries : At(p).op = "reply" }
EventAt(p) == EventsOf(p[1])[At(p).i]

\* the completion text the AI call of the event of entry p returned
CompletionAt(p) ==
  tr[p[1]][CHOOSE k \in Pos(p[1], "completion", At(p).i) : TRUE].arg

\* C17 (as claimed): every reply for a user with a non-empty metric series
\* is the chart image followed by the text; with every series empty it is
\* the text alone.  (The weight series never changes, and a series that is
\* empty in the file now was empty when the event was processed.)
C17_ChartWheneverMetricSeries ==
  \A p \in Replies :
    LET data == Persisted(EventAt(p).userId)
        messages == At(p).arg.messages
    IN
    /\ Len(data.weight) > 0 =>
         Len(messages) = 2 /\ messages[1].type = "image" /\ messages[2].type = "text"
    /\ Len(data.weight) + Len(data.fat) + Len(data.exercise) + Len(data.calories) = 0 =>
         Len(messages) = 1 /\ messages[1].type = "text"

\* C17 (amended): the reply to a text event of a user whose weight series is
\* non-empty is the chart of the weight series followed by the AI text, and
\* with an empty weight series it is the AI text alone; the reply to an
\* image event is one text message, whatever the series hold.
C17_ChartOnTextPathForWeight ==
  \A p \in Replies :
    LET weight == Persisted(EventAt(p).userId).weight
        messages == At(p).arg.messages
    IN
    IF EventAt(p).mtype = "text"
    THEN IF Len(weight) > 0
         THEN /\ Len(messages) = 2
              /\ messages[1].type = "image"
              /\ messages[1].image = << createLineGraph(weight, "weight") >>
              /\ messages[2].type = "text"
              /\ messages[2].text = CompletionAt(p)
         ELSE /\ Len(messages) = 1
              /\ messages[1].type = "text"
              /\ messages[1].text = CompletionAt(p)
    ELSE Len(messages) = 1 /\ messages[1].type = "text"

\* C17 witness: for a user with a weight series, a text event has been
\* answered with chart and text and an image event with text alone
C17_Witness ==
  \E p, q \in Replies :
    /\ Len(Persisted(EventAt(p).userId).weight) > 0
    /\ EventAt(p).userId = EventAt(q).userId
    /\ EventAt(p).mtype = "text" /\ Len(At(p).arg.messages) = 2
    /\ EventAt(q).mtype = "image" /\ Len(At(q).arg.messages) = 1

\* C18: createLineGraph never divides by zero: the divisor of the
\* horizontal step is non-zero also for the empty and the one-element
\* series, no point has an undefined coordinate, and for a series whose
\* maximum is 0 every point is at the baseline y = 250.
C18_NoDivisionByZero ==
  \A p \in AllEntries :
    At(p).op = "chart" =>
      LET data == At(p).arg.data
          points == At(p).arg.graph.points
      IN
      /\ StepDivisor(data) # 0
      /\ \A k \in DOMAIN points :
           /\ points[k].xden # 0
           /\ ~points[k].y.nan
           /\ points[k].y.den # 0
           /\ SeqMax(data) = 0 => points[k].y.num = 250 * points[k].y.den

\* no image event has been taken up in the traces t: only text events (and
\* events without a handler) have been processed
OnlyText(t) == \A r \in Requests : \A k \in DOMAIN t[r] : t[r][k].op # "get"

IsPrefix(a, b) == Len(a) <= Len(b) /\ SubSeq(b, 1, Len(a)) = a

\* C19: as long as only text events are processed, under every
\* interleaving no history append is lost: the persisted history of a user
\* holds exactly one entry per text event that got through its record write
\* (a write that throws appends nothing), and a step only ever extends the
\* history at its end, so the entries are in the order of the dedup
\* accepts, which happen in the same step as the write.
C19_TextOnlyNoLostAppend ==
  /\ [](OnlyText(tr) =>
         \A u \in Users :
           LET written == { p \in Writes : At(p).arg = u }
               history == Persisted(u).history
           IN
           /\ Len(history) = Cardinality(written)
           /\ \A p \in written :
                Cardinality({ k \in DOMAIN history :
                                history[k].message = EventAt(p).text }) = 1)
  /\ [][OnlyText(tr') =>
         \A u \in Users :
           IsPrefix(Persisted(u).history, LoadRecord(files', u).history)]_vars

\* C19 witness: two requests with one text event each have interleaved, the
\* second writing while the first waits for the AI, and the history holds
\* both entries
C19_Witness ==
  \E r1, r2 \in Requests : \E u \in Users :
    /\ r1 # r2
    /\ OnlyText(tr)
    /\ st[r1].pc = "awaitAI" /\ Did(r1, "write", 1)
    /\ Did(r2, "write", 1) /\ Did(r2, "reply", 1)
    /\ Len(Persisted(u).history) = 2

\* the calls whose failure ends an event's processing before its reply is
\* dispatched
BeforeReply == {"read", "write", "get", "ai"}

\* the catch entries of events that failed before their reply was dispatched
FailedBeforeReply ==
  { p \in AllEntries : At(p).op = "catch" /\ At(p).arg \in BeforeReply }

\* C20: an event's id is in the processed-event set before any side effect
\* of the event (record read or write, content fetch, AI call, reply
\* dispatch), an id is never removed from the set, and an event whose
\* processing failed before its reply was dispatched stays in the set, is
\* accepted by no other delivery and never gets a reply.
C20_AddedFirstNeverRemoved ==
  /\ [][processedEvents \subseteq processedEvents']_vars
  /\ [](\A p \in AllEntries :
          At(p).op \in Effects =>
            /\ EventAt(p).id \in processedEvents
            /\ \E k \in Pos(p[1], "add", At(p).i) :
                 k < p[2] /\ tr[p[1]][k].arg = EventAt(p).id)
  /\ [](\A p \in FailedBeforeReply :
          LET id == EventAt(p).id IN
          /\ id \in processedEvents
          /\ RepliesFor(id) = {}
          /\ \A d \in DeliveriesOf(id) :
               d # <<p[1], At(p).i>> => ~Did(d[1], "add", d[2]))

\* C20 witness: the AI call of an event failed, the other request delivered
\* the same event and skipped it, and both handlers have returned
C20_Witness ==
  \E p \in FailedBeforeReply : \E r2 \in Requests :
    /\ At(p).arg = "ai"
    /\ r2 # p[1]
    /\ EventAt(p).id \in MsgIds
    /\ \E k \in DOMAIN tr[r2] : tr[r2][k].op = "skip" /\ tr[r2][k].arg = EventAt(p).id
    /\ \A r \in Requests : Done(r)


====
